---------------------------- MODULE Spec2Model ----------------------------
(***************************************************************************)
(* A model of the Bing engines of SearXNG:                                 *)
(*   searx/engines/bing.py         (web:   request, response, fetch_traits)*)
(*   searx/engines/bing_news.py    (news:  request, response, fetch_traits)*)
(*   searx/engines/bing_videos.py  (video: request, response)              *)
(*                                                                         *)
(* A Python str is a sequence of code points, a bytes object a sequence of *)
(* numbers in 0..255, so that encoding, decoding, quoting and parsing are  *)
(* computed character by character, as the code (and the library functions *)
(* it calls) compute them.  U("...") turns a literal into such a sequence. *)
(***************************************************************************)
EXTENDS Integers, Sequences, FiniteSets, TLC

(***************************************************************************)
(* Bounds of the model.                                                    *)
(***************************************************************************)
\* region links on the page read by fetch_traits
MaxLinks == 2
\* result items (web), news items or video blocks in one response
MaxItems == 2

---------------------------------------------------------------------------
(***************************************************************************)
(* Python values.                                                          *)
(***************************************************************************)

\* Python's None: a value no str equals (a code point is never negative).
None == <<-1>>

\* The printable ASCII characters in code order: 32 (space) to 95 (_), and
\* 97 (a) to 126 (~).  Code 96 cannot be written in a TLA+ string literal
\* and occurs in no literal of the model.
AsciiLow == " !\"#$%&'()*+,-./0123456789:;<=>?@ABCDEFGHIJKLMNOPQRSTUVWXYZ[\\]^_"

AsciiHigh == "abcdefghijklmnopqrstuvwxyz{|}~"

\* ord(c) of each one-character literal.
CharCodes ==
    [c \in {SubSeq(AsciiLow, i, i) : i \in 1..Len(AsciiLow)}
             \cup {SubSeq(AsciiHigh, i, i) : i \in 1..Len(AsciiHigh)} |->
        CHOOSE n \in (32..95) \cup (97..126) :
            IF n <= 95 THEN SubSeq(AsciiLow, n - 31, n - 31) = c
            ELSE SubSeq(AsciiHigh, n - 96, n - 96) = c]

Ord(c) == CharCodes[c]

\* The str written as the literal s.
U(s) == [i \in 1..Len(s) |-> Ord(SubSeq(s, i, i))]

\* The replacement character U+FFFD that decode(errors="replace") emits.
ReplacementChar == 65533

\* bool(x) of a str or None: None and "" are false.
Truthy(x) == x # None /\ x # <<>>

\* s.startswith(p)
StartsWith(s, p) == Len(s) >= Len(p) /\ SubSeq(s, 1, Len(p)) = p

\* s[n:]
DropFirst(s, n) == SubSeq(s, n + 1, Len(s))

\* s.find(c): the first position (from 1) of code point c in s, 0 when absent.
Find(s, c) ==
    LET at == {i \in 1..Len(s) : s[i] = c}
    IN  IF at = {} THEN 0 ELSE CHOOSE i \in at : \A j \in at : i <= j

\* s.split(sep): the pieces of s between the occurrences of code point sep.
RECURSIVE Split(_, _)
Split(s, sep) ==
    LET k == Find(s, sep)
    IN  IF k = 0 THEN <<s>>
        ELSE <<SubSeq(s, 1, k - 1)>> \o Split(DropFirst(s, k), sep)

\* sep.join(parts)
RECURSIVE Join(_, _)
Join(parts, sep) ==
    IF parts = <<>> THEN <<>>
    ELSE IF Len(parts) = 1 THEN parts[1]
    ELSE parts[1] \o sep \o Join(Tail(parts), sep)

\* The ASCII white space str.strip() removes.
IsSpace(c) == c \in {9, 10, 11, 12, 13, 32}

\* s.strip()
RECURSIVE LStrip(_)
LStrip(s) == IF s # <<>> /\ IsSpace(s[1]) THEN LStrip(Tail(s)) ELSE s

RECURSIVE RStrip(_)
RStrip(s) ==
    IF s # <<>> /\ IsSpace(s[Len(s)]) THEN RStrip(SubSeq(s, 1, Len(s) - 1)) ELSE s

Strip(s) == RStrip(LStrip(s))

\* c.upper() of one code point (ASCII letters).
UpperChar(c) == IF c >= 97 /\ c <= 122 THEN c - 32 ELSE c

\* s.upper()
Upper(s) == [i \in 1..Len(s) |-> UpperChar(s[i])]

IsDigit(c) == c >= 48 /\ c <= 57

\* str(n) of an integer n >= 0.
RECURSIVE IntToStr(_)
IntToStr(n) ==
    IF n < 10 THEN <<48 + n>>
    ELSE IntToStr(n \div 10) \o <<48 + (n % 10)>>

\* int(s) of a non-empty str of ASCII digits.
RECURSIVE PyInt(_)
PyInt(s) ==
    IF s = <<>> THEN 0
    ELSE 10 * PyInt(SubSeq(s, 1, Len(s) - 1)) + (s[Len(s)] - 48)

---------------------------------------------------------------------------
(***************************************************************************)
(* Library functions the engines call: str.encode / bytes.decode, base64,  *)
(* urllib.parse.  Each is computed as the library computes it.             *)
(***************************************************************************)

\* What an operation that raises an exception yields instead of a value.
Raised == <<-2>>

\* s.encode("utf-8"), for code points below 65536.
RECURSIVE Utf8Encode(_)
Utf8Encode(s) ==
    IF s = <<>> THEN <<>>
    ELSE LET c == s[1]
             b == IF c < 128 THEN <<c>>
                  ELSE IF c < 2048 THEN <<192 + (c \div 64), 128 + (c % 64)>>
                  ELSE <<224 + (c \div 4096), 128 + ((c \div 64) % 64), 128 + (c % 64)>>
         IN  b \o Utf8Encode(Tail(s))

\* Whether byte b may follow lead byte lead as the second byte of a sequence.
Utf8Second(lead, b) ==
    CASE lead = 224 -> b >= 160 /\ b <= 191
      [] lead = 237 -> b >= 128 /\ b <= 159
      [] lead = 240 -> b >= 144 /\ b <= 191
      [] lead = 244 -> b >= 128 /\ b <= 143
      [] OTHER -> b >= 128 /\ b <= 191

Utf8Cont(b) == b >= 128 /\ b <= 191

\* b.decode("utf-8", errors="replace"): every maximal ill-formed part of the
\* input becomes one U+FFFD.
RECURSIVE Utf8Decode(_)
Utf8Decode(b) ==
    IF b = <<>> THEN <<>>
    ELSE
      LET c == b[1]
          n == Len(b)
          need == IF c < 128 THEN 1
                  ELSE IF c >= 194 /\ c <= 223 THEN 2
                  ELSE IF c >= 224 /\ c <= 239 THEN 3
                  ELSE IF c >= 240 /\ c <= 244 THEN 4
                  ELSE 0
          ok2 == n >= 2 /\ Utf8Second(c, b[2])
          ok3 == ok2 /\ n >= 3 /\ Utf8Cont(b[3])
          ok4 == ok3 /\ n >= 4 /\ Utf8Cont(b[4])
      IN  CASE need = 1 -> <<c>> \o Utf8Decode(Tail(b))
            [] need = 0 -> <<ReplacementChar>> \o Utf8Decode(Tail(b))
            [] need = 2 ->
                 IF ok2 THEN <<(c - 192) * 64 + (b[2] - 128)>> \o Utf8Decode(DropFirst(b, 2))
                 ELSE <<ReplacementChar>> \o Utf8Decode(Tail(b))
            [] need = 3 ->
                 IF ok3 THEN <<(c - 224) * 4096 + (b[2] - 128) * 64 + (b[3] - 128)>>
                             \o Utf8Decode(DropFirst(b, 3))
                 ELSE IF ok2 THEN <<ReplacementChar>> \o Utf8Decode(DropFirst(b, 2))
                 ELSE <<ReplacementChar>> \o Utf8Decode(Tail(b))
            [] need = 4 ->
                 IF ok4 THEN <<(c - 240) * 262144 + (b[2] - 128) * 4096
                               + (b[3] - 128) * 64 + (b[4] - 128)>>
                             \o Utf8Decode(DropFirst(b, 4))
                 ELSE IF ok3 THEN <<ReplacementChar>> \o Utf8Decode(DropFirst(b, 3))
                 ELSE IF ok2 THEN <<ReplacementChar>> \o Utf8Decode(DropFirst(b, 2))
                 ELSE <<ReplacementChar>> \o Utf8Decode(Tail(b))

\* The value of a character in the base64 alphabet, 64 when it is not in it.
\* urlsafe_b64decode maps "-" to "+" and "_" to "/" and then decodes with
\* the standard alphabet, so both spellings of 62 and 63 are accepted.
B64Value(c) ==
    CASE c >= 65 /\ c <= 90 -> c - 65
      [] c >= 97 /\ c <= 122 -> c - 71
      [] c >= 48 /\ c <= 57 -> c + 4
      [] c = 43 \/ c = 45 -> 62
      [] c = 47 \/ c = 95 -> 63
      [] OTHER -> 64

\* binascii.a2b_base64 (not strict): characters outside the alphabet are
\* skipped, "=" ends the data once a quad is complete with it, and data
\* that ends inside a quad raises binascii.Error.
RECURSIVE A2bBase64(_, _, _, _, _, _)
A2bBase64(s, i, quad_pos, leftchar, pads, out) ==
    IF i > Len(s) THEN (IF quad_pos # 0 THEN Raised ELSE out)
    ELSE IF s[i] = 61 THEN
        IF quad_pos >= 2 /\ quad_pos + pads + 1 >= 4 THEN out
        ELSE A2bBase64(s, i + 1, quad_pos, leftchar,
                       IF quad_pos >= 2 THEN pads + 1 ELSE pads, out)
    ELSE
        LET v == B64Value(s[i])
        IN  IF v >= 64 THEN A2bBase64(s, i + 1, quad_pos, leftchar, pads, out)
            ELSE CASE quad_pos = 0 -> A2bBase64(s, i + 1, 1, v, 0, out)
                   [] quad_pos = 1 ->
                        A2bBase64(s, i + 1, 2, v % 16, 0,
                                  Append(out, leftchar * 4 + (v \div 16)))
                   [] quad_pos = 2 ->
                        A2bBase64(s, i + 1, 3, v % 4, 0,
                                  Append(out, leftchar * 16 + (v \div 4)))
                   [] quad_pos = 3 ->
                        A2bBase64(s, i + 1, 0, 0, 0, Append(out, leftchar * 64 + v))

\* base64.urlsafe_b64decode(s) of a str: a str with a non-ASCII character
\* raises ValueError.
urlsafe_b64decode(s) ==
    IF \E i \in 1..Len(s) : s[i] >= 128 THEN Raised
    ELSE A2bBase64(s, 1, 0, 0, 0, <<>>)

IsHex(c) == IsDigit(c) \/ (c >= 65 /\ c <= 70) \/ (c >= 97 /\ c <= 102)

HexValue(c) == IF IsDigit(c) THEN c - 48 ELSE IF c >= 97 THEN c - 87 ELSE c - 55

HexDigit(n) == IF n < 10 THEN 48 + n ELSE 55 + n

\* The characters urllib.parse.quote never escapes.
AlwaysSafe(c) ==
    \/ (c >= 65 /\ c <= 90) \/ (c >= 97 /\ c <= 122) \/ IsDigit(c)
    \/ c \in {95, 46, 45, 126}

\* urllib.parse.quote_plus(s): the UTF-8 bytes of s, a space as "+", the
\* always-safe characters as they are, every other byte as %XX.
RECURSIVE QuoteBytes(_)
QuoteBytes(b) ==
    IF b = <<>> THEN <<>>
    ELSE LET c == b[1]
             q == IF c = 32 THEN <<43>>
                  ELSE IF AlwaysSafe(c) THEN <<c>>
                  ELSE <<37, HexDigit(c \div 16), HexDigit(c % 16)>>
         IN  q \o QuoteBytes(Tail(b))

quote_plus(s) == QuoteBytes(Utf8Encode(s))

\* urllib.parse.urlencode(query) of a sequence of <<key, value>> pairs whose
\* keys and values are already str.
RECURSIVE urlencode(_)
urlencode(query) ==
    IF query = <<>> THEN <<>>
    ELSE LET kv == quote_plus(query[1][1]) \o <<61>> \o quote_plus(query[1][2])
         IN  IF Len(query) = 1 THEN kv
             ELSE kv \o <<38>> \o urlencode(Tail(query))

\* urllib.parse.unquote_to_bytes of an ASCII str: %XX with two hex digits is
\* the byte XX, every other character is itself.
RECURSIVE UnquoteToBytes(_)
UnquoteToBytes(s) ==
    IF s = <<>> THEN <<>>
    ELSE IF s[1] = 37 /\ Len(s) >= 3 /\ IsHex(s[2]) /\ IsHex(s[3])
         THEN <<HexValue(s[2]) * 16 + HexValue(s[3])>> \o UnquoteToBytes(DropFirst(s, 3))
    ELSE <<s[1]>> \o UnquoteToBytes(Tail(s))

\* The length of the longest prefix of s that is ASCII.
RECURSIVE AsciiRun(_, _)
AsciiRun(s, i) == IF i <= Len(s) /\ s[i] < 128 THEN AsciiRun(s, i + 1) ELSE i - 1

\* urllib.parse.unquote(s, errors="replace"): each ASCII run is unquoted to
\* bytes and decoded as UTF-8, the other characters are kept.
RECURSIVE unquote(_)
unquote(s) ==
    IF s = <<>> THEN <<>>
    ELSE LET k == AsciiRun(s, 1)
         IN  IF k = 0 THEN <<s[1]>> \o unquote(Tail(s))
             ELSE Utf8Decode(UnquoteToBytes(SubSeq(s, 1, k))) \o unquote(DropFirst(s, k))

\* name.replace("+", " ")
PlusToSpace(s) == [i \in 1..Len(s) |-> IF s[i] = 43 THEN 32 ELSE s[i]]

\* urllib.parse.urlparse(url).query: what follows the first "?" of the part
\* of url before the first "#".
UrlQuery(url) ==
    LET h == Find(url, 35)
        nofrag == IF h = 0 THEN url ELSE SubSeq(url, 1, h - 1)
        q == Find(nofrag, 63)
    IN  IF q = 0 THEN <<>> ELSE DropFirst(nofrag, q)

\* urllib.parse.parse_qsl(qs): the <<name, value>> pairs of qs in order.  A
\* field without "=" or with an empty value is dropped (keep_blank_values
\* is false).
RECURSIVE ParseFields(_)
ParseFields(fields) ==
    IF fields = <<>> THEN <<>>
    ELSE LET f == fields[1]
             e == Find(f, 61)
             name == IF e = 0 THEN f ELSE SubSeq(f, 1, e - 1)
             value == IF e = 0 THEN <<>> ELSE DropFirst(f, e)
         IN  (IF value = <<>> THEN <<>>
              ELSE << <<unquote(PlusToSpace(name)), unquote(PlusToSpace(value))>> >>)
             \o ParseFields(Tail(fields))

parse_qsl(qs) == ParseFields(Split(qs, 38))

\* parse_qs(qs).get(name) as the code uses it: the values of name in order,
\* empty when qs has no such field (the code tests the result for truth only,
\* so None and the empty list are not told apart).
RECURSIVE ValuesOf(_, _)
ValuesOf(pairs, name) ==
    IF pairs = <<>> THEN <<>>
    ELSE (IF pairs[1][1] = name THEN <<pairs[1][2]>> ELSE <<>>)
         \o ValuesOf(Tail(pairs), name)

QsGet(qs, name) == ValuesOf(parse_qsl(qs), name)

\* The keys of parse_qs(qs).
QsKeys(qs) == LET ps == parse_qsl(qs) IN {ps[i][1] : i \in 1..Len(ps)}

---------------------------------------------------------------------------
(***************************************************************************)
(* The state.                                                              *)
(*                                                                         *)
(* traits        the EngineTraits each engine module has loaded            *)
(* engine, query, params_in, params                                        *)
(*               the last request(): the engine it was sent to, its        *)
(*               arguments, and the params it returned                     *)
(* fetch         one run of fetch_traits: its position, its input and the  *)
(*               EngineTraits it is filling                                *)
(* parse         one run of response(): its position, its input and the    *)
(*               results collected so far                                  *)
(***************************************************************************)
VARIABLES traits, engine, query, params_in, params, fetch, parse

vars == <<traits, engine, query, params_in, params, fetch, parse>>

Engines == {"bing", "bing_news", "bing_videos"}

---------------------------------------------------------------------------
(***************************************************************************)
(* Helpers shared by the engines (bing.py).                                *)
(***************************************************************************)

\* A dict that may be None: get_locale_params returns one.
NoneDict == [none |-> TRUE, items |-> <<>>]

SomeDict(items) == [none |-> FALSE, items |-> items]

\* bool(d) of a dict or None.
DictTruthy(d) == ~d.none /\ d.items # <<>>

\* d[k] = v on a dict kept as its <<key, value>> pairs in insertion order.
RECURSIVE DictSet(_, _, _)
DictSet(d, k, v) ==
    IF d = <<>> THEN << <<k, v>> >>
    ELSE IF d[1][1] = k THEN << <<k, v>> >> \o Tail(d)
    ELSE <<d[1]>> \o DictSet(Tail(d), k, v)

\* d.update(other)
RECURSIVE DictUpdate(_, _)
DictUpdate(d, other) ==
    IF other = <<>> THEN d
    ELSE DictUpdate(DictSet(d, other[1][1], other[1][2]), Tail(other))

\* _safesearch_map.get(level, "off")
safesearch_map(level) ==
    CASE level = 0 -> U("off")
      [] level = 1 -> U("moderate")
      [] level = 2 -> U("strict")
      [] OTHER -> U("off")

base_url == U("https://www.bing.com/search")

\* A get_locale_params that forgets the "clear" region.
get_locale_params_noclear(engine_region) ==
    IF ~Truthy(engine_region) THEN NoneDict
    ELSE SomeDict(<< <<U("mkt"), engine_region>> >>)

get_locale_params(engine_region) ==
    IF ~Truthy(engine_region) \/ engine_region = U("clear") THEN NoneDict
    ELSE SomeDict(<< <<U("mkt"), engine_region>> >>)

\* An override_accept_language that leaves the fallback language in.
override_accept_language_fallback(p, engine_region) ==
    IF ~Truthy(engine_region) \/ engine_region = U("clear") THEN p
    ELSE LET lang == Split(engine_region, 45)[1]
         IN  [p EXCEPT !.headers.Accept_Language =
                  engine_region \o U(",") \o lang \o U(";q=0.9,en;q=0.3")]

override_accept_language(p, engine_region) ==
    IF ~Truthy(engine_region) \/ engine_region = U("clear") THEN p
    ELSE LET lang == Split(engine_region, 45)[1]
         IN  [p EXCEPT !.headers.Accept_Language =
                  engine_region \o U(",") \o lang \o U(";q=0.9")]

\* traits.get_region(searxng_locale, default): the market code of the locale
\* tag in the trait table, the default when the table has no such tag.
get_region(t, searxng_locale, default) ==
    IF searxng_locale \in DOMAIN t.regions THEN t.regions[searxng_locale]
    ELSE default

---------------------------------------------------------------------------
(***************************************************************************)
(* request()                                                               *)
(***************************************************************************)

\* A web query that pages like the news and video engines do.
bing_query_params_paged(q, p) ==
    << <<U("q"), q>>,
       <<U("adlt"), safesearch_map(p.safesearch)>>,
       <<U("first"), IntToStr((p.pageno - 1) * 10 + 1)>> >>

\* bing.request: the query parameters before the locale is merged in.
bing_query_params(q, p) ==
    << <<U("q"), q>>,
       <<U("adlt"), safesearch_map(p.safesearch)>> >>

\* bing.request
bing_request(q, p, t) ==
    LET engine_region == get_region(t, p.searxng_locale, t.all_locale)
        p1 == override_accept_language(p, engine_region)
        query_params == bing_query_params(q, p)
        locale_params == get_locale_params(engine_region)
        qp == IF DictTruthy(locale_params)
              THEN DictUpdate(query_params, locale_params.items)
              ELSE query_params
    IN  [p1 EXCEPT !.url = base_url \o U("?") \o urlencode(qp),
                   !.allow_redirects = TRUE]

news_base_url == U("https://www.bing.com/news/infinitescrollajax")

\* bing_news.time_map.get(time_range, 'interval="9"')
news_time_map(time_range) ==
    CASE time_range = U("day") -> U("interval=\"4\"")
      [] time_range = U("week") -> U("interval=\"7\"")
      [] time_range = U("month") -> U("interval=\"9\"")
      [] OTHER -> U("interval=\"9\"")

\* bing_news.request
bing_news_request(q, p, t) ==
    LET engine_region == get_region(t, p.searxng_locale, t.all_locale)
        p1 == override_accept_language(p, engine_region)
        page == p.pageno - 1
        query_params == << <<U("q"), q>>,
                           <<U("InfiniteScroll"), IntToStr(1)>>,
                           <<U("first"), IntToStr(page * 10 + 1)>>,
                           <<U("SFX"), IntToStr(page)>>,
                           <<U("form"), U("PTFTNR")>> >>
        locale_params == get_locale_params(engine_region)
        qp == IF DictTruthy(locale_params)
              THEN DictUpdate(query_params, locale_params.items)
              ELSE query_params
        qp2 == IF Truthy(p.time_range)
               THEN DictSet(qp, U("qft"), news_time_map(p.time_range))
               ELSE qp
    IN  [p1 EXCEPT !.url = news_base_url \o U("?") \o urlencode(qp2)]

videos_base_url == U("https://www.bing.com/videos/asyncv2")

\* bing_images.time_map[time_range]: the minutes of the range.  The map
\* holds every time range a search request can carry.
images_time_map(time_range) ==
    CASE time_range = U("day") -> 60 * 24
      [] time_range = U("week") -> 60 * 24 * 7
      [] time_range = U("month") -> 60 * 24 * 31
      [] time_range = U("year") -> 60 * 24 * 365

\* bing_videos.request
bing_videos_request(q, p, t) ==
    LET engine_region == get_region(t, p.searxng_locale, t.all_locale)
        p1 == override_accept_language(p, engine_region)
        query_params == << <<U("q"), q>>,
                           <<U("async"), U("content")>>,
                           <<U("first"), IntToStr((p.pageno - 1) * 35 + 1)>>,
                           <<U("count"), IntToStr(35)>> >>
        locale_params == get_locale_params(engine_region)
        qp == IF DictTruthy(locale_params)
              THEN DictUpdate(query_params, locale_params.items)
              ELSE query_params
        qp2 == IF Truthy(p.time_range)
               THEN DictSet(DictSet(qp, U("form"), U("VRFLTR")), U("qft"),
                            U(" filterui:videoage-lt")
                            \o IntToStr(images_time_map(p.time_range)))
               ELSE qp
    IN  [p1 EXCEPT !.url = videos_base_url \o U("?") \o urlencode(qp2)]

\* request() of engine e.
request(e, q, p, t) ==
    CASE e = "bing" -> bing_request(q, p, t)
      [] e = "bing_news" -> bing_news_request(q, p, t)
      [] e = "bing_videos" -> bing_videos_request(q, p, t)

---------------------------------------------------------------------------
(***************************************************************************)
(* fetch_traits()                                                          *)
(***************************************************************************)

\* A new EngineTraits: no region, no all_locale.
EmptyTraits == [regions |-> <<>>, all_locale |-> None]

\* regions.get(tag)
RegionsGet(regions, tag) == IF tag \in DOMAIN regions THEN regions[tag] ELSE None

\* regions[tag] = market_code
RegionsSet(regions, tag, market_code) ==
    [x \in DOMAIN regions \cup {tag} |-> IF x = tag THEN market_code ELSE regions[x]]

\* map_market_codes.get(market_code, market_code)
map_market_codes(market_code) ==
    IF market_code = U("zh-hk") THEN U("en-hk") ELSE market_code

\* babel.languages.get_official_languages(cc_tag, de_facto=True): a sample of
\* babel's territory data.  The territory is looked up in upper case.
get_official_languages(cc_tag) ==
    LET cc == Upper(cc_tag)
    IN  CASE cc = U("US") -> <<U("en")>>
          [] cc = U("HK") -> <<U("zh_Hant"), U("en")>>
          [] cc = U("CN") -> <<U("zh_Hans")>>
          [] cc = U("PH") -> <<U("en"), U("tl")>>
          [] OTHER -> <<>>

\* The locales babel.Locale.parse knows, among those the sample can ask for.
KnownLocales == {U("en_US"), U("en_HK"), U("zh_HK"), U("zh_CN"), U("en_PH")}

\* region_tag(babel.Locale.parse("%s_%s" % (lang_tag, cc_tag.upper()))):
\* "<language>-<TERRITORY>", Raised for babel.UnknownLocaleError.
sxng_region_tag(lang_tag, cc_tag) ==
    IF lang_tag \o U("_") \o Upper(cc_tag) \in KnownLocales
    THEN lang_tag \o U("-") \o Upper(cc_tag)
    ELSE Raised

\* The body of the inner loop that overwrites a region already in the table.
add_language_last_wins(et, cc_tag, official) ==
    LET lang_tag == Split(official, 95)[1]
        market_code == map_market_codes(lang_tag \o U("-") \o cc_tag)
        sxng_tag == sxng_region_tag(lang_tag, cc_tag)
    IN  IF sxng_tag = Raised THEN et
        ELSE [et EXCEPT !.regions = RegionsSet(@, sxng_tag, market_code)]

\* bing.fetch_traits, the body of the inner loop: one official language of
\* the country cc_tag.  et.log holds the CONFLICT lines printed.
add_language(et, cc_tag, official) ==
    LET lang_tag == Split(official, 95)[1]
        market_code == map_market_codes(lang_tag \o U("-") \o cc_tag)
        sxng_tag == sxng_region_tag(lang_tag, cc_tag)
        conflict == RegionsGet(et.regions, sxng_tag)
    IN  IF sxng_tag = Raised THEN et
        ELSE IF Truthy(conflict) THEN
            IF conflict # market_code
            THEN [et EXCEPT !.log = Append(@, <<sxng_tag, conflict, market_code>>)]
            ELSE et
        ELSE [et EXCEPT !.regions = RegionsSet(@, sxng_tag, market_code)]

\* parse_qs(urlparse(href).query)["cc"][0]; Raised for the KeyError of a link
\* without a cc field.
link_cc_tag(href) ==
    LET v == QsGet(UrlQuery(href), U("cc"))
    IN  IF v = <<>> THEN Raised ELSE v[1]

RECURSIVE add_languages(_, _, _)
add_languages(et, cc_tag, langs) ==
    IF langs = <<>> THEN et
    ELSE add_languages(add_language(et, cc_tag, langs[1]), cc_tag, Tail(langs))

\* bing.fetch_traits, the loop over the region links; et.raised is set when
\* a link raises, which ends the run.
RECURSIVE add_links(_, _)
add_links(et, hrefs) ==
    IF hrefs = <<>> THEN et
    ELSE LET cc_tag == link_cc_tag(hrefs[1])
         IN  IF cc_tag = Raised THEN [et EXCEPT !.raised = TRUE]
             ELSE IF cc_tag = U("clear")
                  THEN add_links([et EXCEPT !.all_locale = cc_tag], Tail(hrefs))
             ELSE add_links(add_languages(et, cc_tag, get_official_languages(cc_tag)),
                            Tail(hrefs))

\* bing_news.fetch_traits, after bing.fetch_traits: regions["zh-CN"] = "en-hk"
news_fix(et) == [et EXCEPT !.regions = RegionsSet(@, U("zh-CN"), U("en-hk"))]

\* The EngineTraits fetch_traits is given, with the CONFLICT lines printed
\* and whether the run raised.
NewEngineTraits == [regions |-> <<>>, all_locale |-> None, log |-> <<>>, raised |-> FALSE]

\* fetch_traits of engine e over a region page with these links (a run that
\* does not raise), as the traits the engine loads.
fetch_traits(e, hrefs) ==
    LET et == add_links(NewEngineTraits, hrefs)
        done == IF e = "bing_news" THEN news_fix(et) ELSE et
    IN  [regions |-> done.regions, all_locale |-> done.all_locale]

\* The links a region page may hold.
LinkHrefs ==
    { U("/?cc=us"), U("/?cc=US"), U("/?cc=hk"), U("/?cc=cn"), U("/?cc=ph"),
      U("/?cc=clear"), U("/account/general?setlang=en") }

\* The sequences of at most n elements of S.
SeqsUpTo(S, n) == UNION {[1..k -> S] : k \in 0..n}

LinkPages == SeqsUpTo(LinkHrefs, MaxLinks)

\* The position of a fetch_traits run that has not started.
FetchIdle ==
    [pc |-> "idle", e |-> "bing", hrefs |-> <<>>, li |-> 1, cc_tag |-> <<>>,
     langs |-> <<>>, et |-> NewEngineTraits]

\* fetch_traits is called: the region page is requested.
FetchStart ==
    /\ fetch.pc = "idle"
    /\ \E e \in {"bing", "bing_news"}, hrefs \in LinkPages, ok \in BOOLEAN :
          fetch' = [fetch EXCEPT !.e = e, !.hrefs = hrefs,
                                   !.pc = IF ok THEN "links" ELSE "raised"]
    /\ UNCHANGED <<traits, engine, query, params_in, params, parse>>

\* The outer loop takes the next region link.
FetchLink ==
    /\ fetch.pc = "links"
    /\ fetch.li <= Len(fetch.hrefs)
    /\ LET cc_tag == link_cc_tag(fetch.hrefs[fetch.li])
       IN  fetch' =
             IF cc_tag = Raised THEN [fetch EXCEPT !.pc = "raised", !.et.raised = TRUE]
             ELSE IF cc_tag = U("clear")
                  THEN [fetch EXCEPT !.et.all_locale = cc_tag, !.li = @ + 1]
             ELSE [fetch EXCEPT !.cc_tag = cc_tag, !.pc = "langs",
                                !.langs = get_official_languages(cc_tag)]
    /\ UNCHANGED <<traits, engine, query, params_in, params, parse>>

\* The inner loop takes the next official language of the country.
FetchLang ==
    /\ fetch.pc = "langs"
    /\ fetch.langs # <<>>
    /\ fetch' = [fetch EXCEPT !.et = add_language(@, fetch.cc_tag, fetch.langs[1]),
                              !.langs = Tail(@)]
    /\ UNCHANGED <<traits, engine, query, params_in, params, parse>>

\* The inner loop ends.
FetchLangsEnd ==
    /\ fetch.pc = "langs"
    /\ fetch.langs = <<>>
    /\ fetch' = [fetch EXCEPT !.pc = "links", !.li = @ + 1]
    /\ UNCHANGED <<traits, engine, query, params_in, params, parse>>

\* The outer loop ends: bing.fetch_traits returns.
FetchReturn ==
    /\ fetch.pc = "links"
    /\ fetch.li > Len(fetch.hrefs)
    /\ fetch' = [fetch EXCEPT !.pc = IF fetch.e = "bing_news" THEN "fix" ELSE "done"]
    /\ UNCHANGED <<traits, engine, query, params_in, params, parse>>

\* bing_news.fetch_traits fixes the market code of zh-CN and returns.
FetchNewsFix ==
    /\ fetch.pc = "fix"
    /\ fetch' = [fetch EXCEPT !.et = news_fix(@), !.pc = "done"]
    /\ UNCHANGED <<traits, engine, query, params_in, params, parse>>

---------------------------------------------------------------------------
(***************************************************************************)
(* The inputs and the actions of request().                                *)
(***************************************************************************)

\* The traits of the three engines after fetch_traits ran on one region
\* page: bing_videos imports bing.fetch_traits.
LoadedTraits ==
    { [e \in Engines |-> fetch_traits(IF e = "bing_news" THEN e ELSE "bing", hrefs)] :
        hrefs \in {h \in LinkPages : ~add_links(NewEngineTraits, h).raised} }

Queries == {U("london"), U("a b&first=5")}

Locales == {U("all"), U("en-US"), U("zh-CN"), U("fr-FR")}

PageNumbers == {1, 2}

TimeRanges == {None, U("day"), U("year")}

SafeSearchLevels == {0, 2}

\* The Accept-Language header OnlineProcessor built for the request.
DefaultAcceptLanguage == U("de,de-DE;q=0.7,en;q=0.3")

\* The params of a request no engine has handled yet.
NewParams(locale, pageno, time_range, safesearch) ==
    [searxng_locale |-> locale, pageno |-> pageno, time_range |-> time_range,
     safesearch |-> safesearch,
     headers |-> [Accept_Language |-> DefaultAcceptLanguage],
     url |-> <<>>, allow_redirects |-> FALSE]

\* The position of a response() run that has not started.
ParseIdle ==
    [pc |-> "idle", e |-> "bing", dom |-> [items |-> <<>>, sb_count |-> <<>>],
     i |-> 1, results |-> <<>>]

\* The search processor calls request() of engine e.  request() reads the
\* traits and its arguments only, so what it returns does not depend on the
\* requests made before: a behaviour makes one request.
Request(e) ==
    /\ engine = "none"
    /\ \E q \in Queries, locale \in Locales, pageno \in PageNumbers,
          time_range \in TimeRanges, safesearch \in SafeSearchLevels :
          LET p == NewParams(locale, pageno, time_range, safesearch)
          IN  /\ engine' = e
              /\ query' = q
              /\ params_in' = p
              /\ params' = request(e, q, p, traits[e])
    /\ UNCHANGED <<traits, fetch, parse>>

BingRequest == Request("bing")

BingNewsRequest == Request("bing_news")

BingVideosRequest == Request("bing_videos")

\* The engines are loaded with their traits; no request was made.
Init ==
    /\ traits \in LoadedTraits
    /\ engine = "none"
    /\ query = <<>>
    /\ params_in = NewParams(<<>>, 1, None, 0)
    /\ params = NewParams(<<>>, 1, None, 0)
    /\ fetch = FetchIdle
    /\ parse = ParseIdle

Next == BingRequest \/ BingNewsRequest \/ BingVideosRequest

Spec == Init /\ [][Next]_vars

\* One run of fetch_traits.
InitTraits ==
    /\ traits = [e \in Engines |-> EmptyTraits]
    /\ engine = "none"
    /\ query = <<>>
    /\ params_in = NewParams(<<>>, 1, None, 0)
    /\ params = NewParams(<<>>, 1, None, 0)
    /\ fetch = FetchIdle
    /\ parse = ParseIdle

NextTraits ==
    \/ FetchStart
    \/ FetchLink
    \/ FetchLang
    \/ FetchLangsEnd
    \/ FetchReturn
    \/ FetchNewsFix

SpecTraits == InitTraits /\ [][NextTraits]_vars

---------------------------------------------------------------------------
(***************************************************************************)
(* response()                                                              *)
(*                                                                         *)
(* The document is given as lxml parsed it and as the XPath expressions    *)
(* of the code select from it:                                             *)
(*   web item     [has_link, href, title, p]         li.b_algo             *)
(*                p: its <p> elements, each the sequence of its nodes      *)
(*                [icon, text]; icon marks a span.algoSlug_icon            *)
(*   news item    [has_link, href, title, data_author, snippet,            *)
(*                 has_source, aria_label, has_img, src]   div.newsitem    *)
(*   video block  [vrhm, spans, imgs]                div#mc_vtvc_video...  *)
(*                the @vrhm values, the meta span texts, the img @src      *)
(* An attribute the element does not have is None.  title is the text      *)
(* extract_text returns for the link.                                      *)
(***************************************************************************)

\* What the body of a loop does with one item: it skips the item, raises,
\* or appends a record.
Skip == [kind |-> "skip", rec |-> <<>>]

Raise == [kind |-> "raise", rec |-> <<>>]

Record(r) == [kind |-> "record", rec |-> r]

\* "=" * (-len(encoded) % 4)
B64Padding(encoded) == [i \in 1..((4 - (Len(encoded) % 4)) % 4) |-> 61]

\* A decoding that takes the payload after "a" instead of after "a1".
decode_tracking_off_by_one(href) ==
    IF StartsWith(href, U("https://www.bing.com/ck/a?"))
    THEN LET u_values == QsGet(UrlQuery(href), U("u"))
         IN  IF Len(u_values) > 0 /\ StartsWith(u_values[1], U("a1"))
             THEN LET encoded == DropFirst(u_values[1], 1)
                      decoded == urlsafe_b64decode(encoded \o B64Padding(encoded))
                  IN  IF decoded = Raised THEN Raised ELSE Utf8Decode(decoded)
             ELSE href
    ELSE href

\* bing.response, the click-tracking step: the href to return for href, or
\* Raised when base64.urlsafe_b64decode raises.
decode_tracking(href) ==
    IF StartsWith(href, U("https://www.bing.com/ck/a?"))
    THEN LET u_values == QsGet(UrlQuery(href), U("u"))
         IN  IF Len(u_values) > 0 /\ StartsWith(u_values[1], U("a1"))
             THEN LET encoded == DropFirst(u_values[1], 2)
                      decoded == urlsafe_b64decode(encoded \o B64Padding(encoded))
                  IN  IF decoded = Raised THEN Raised ELSE Utf8Decode(decoded)
             ELSE href
    ELSE href

\* " ".join(text.split()): the words of text, one space between them.
RECURSIVE Words(_)
Words(text) ==
    LET t == LStrip(text)
        ends == {i \in 1..Len(t) : IsSpace(t[i])}
        k == IF ends = {} THEN Len(t) + 1 ELSE CHOOSE i \in ends : \A j \in ends : i <= j
    IN  IF t = <<>> THEN <<>>
        ELSE <<SubSeq(t, 1, k - 1)>> \o Words(SubSeq(t, k, Len(t)))

\* The text of the nodes of an element that are not icons.
RECURSIVE NodesText(_)
NodesText(nodes) ==
    IF nodes = <<>> THEN <<>>
    ELSE (IF nodes[1].icon THEN <<>> ELSE nodes[1].text) \o NodesText(Tail(nodes))

\* extract_text(content_els) after the icons were removed: the normalised
\* texts of the elements, concatenated and stripped.
RECURSIVE ElementsText(_)
ElementsText(els) ==
    IF els = <<>> THEN <<>>
    ELSE Join(Words(NodesText(els[1])), U(" ")) \o ElementsText(Tail(els))

extract_content(els) == Strip(ElementsText(els))

\* bing.response, the body of the loop.
bing_item(item) ==
    IF ~item.has_link THEN Skip
    ELSE LET href == IF item.href = None THEN <<>> ELSE item.href
             title == item.title
         IN  IF ~Truthy(href) \/ ~Truthy(title) THEN Skip
             ELSE LET url == decode_tracking(href)
                  IN  IF url = Raised THEN Raise
                      ELSE Record([url |-> url, title |-> title,
                                   content |-> extract_content(item.p)])

\* re.sub(r"[^0-9]", "", s)
RECURSIVE OnlyDigits(_)
OnlyDigits(s) ==
    IF s = <<>> THEN <<>>
    ELSE (IF IsDigit(s[1]) THEN <<s[1]>> ELSE <<>>) \o OnlyDigits(Tail(s))

\* A summary step that does not look whether there are results.
bing_summary_always(results, sb_count) ==
    LET result_len_container == OnlyDigits(Join(sb_count, <<>>))
    IN  IF Truthy(result_len_container)
        THEN Append(results, [number_of_results |-> PyInt(result_len_container)])
        ELSE results

\* bing.response, after the loop: the list returned.
bing_summary(results, sb_count) ==
    IF Len(results) > 0
    THEN LET result_len_container == OnlyDigits(Join(sb_count, <<>>))
         IN  IF Truthy(result_len_container)
             THEN Append(results, [number_of_results |-> PyInt(result_len_container)])
             ELSE results
    ELSE results

\* bing_news.response: the metadata of an item, from the aria-label of the
\* source block and the data-author of the link.  extract_text returns a str
\* as it is.
news_metadata(item) ==
    LET keep(x) == IF x # None /\ Truthy(x) /\ Truthy(Strip(x)) THEN <<Strip(x)>> ELSE <<>>
    IN  IF item.has_source
        THEN Join(keep(item.aria_label) \o keep(item.data_author), U(" | "))
        ELSE <<>>

\* bing_news.response, the body of the loop.
bing_news_item(item) ==
    IF ~item.has_link THEN Skip
    ELSE IF item.has_img /\ item.src = None THEN Raise
    ELSE LET thumbnail ==
                 IF ~item.has_img THEN None
                 ELSE IF StartsWith(item.src, U("https://www.bing.com")) THEN item.src
                 ELSE U("https://www.bing.com/") \o item.src
         IN  Record([url |-> item.href, title |-> item.title, content |-> item.snippet,
                     thumbnail |-> thumbnail, metadata |-> news_metadata(item)])

\* The end of the JSON string that starts at the quote s[i]: the position of
\* the next quote, 0 when there is none or a backslash comes first.
JsonStringEnd(s, i) ==
    LET stops == {j \in (i + 1)..Len(s) : s[j] = 34 \/ s[j] = 92}
        j == IF stops = {} THEN 0 ELSE CHOOSE x \in stops : \A y \in stops : x <= y
    IN  IF j # 0 /\ s[j] = 34 THEN j ELSE 0

\* json.loads(s) for the texts of the model: an object whose members are
\* strings without escapes, written without white space.  [ok, obj]; obj
\* holds the members as a dict, the last of two equal names winning.  Any
\* other text is reported as one json.loads raises for.
RECURSIVE JsonMembers(_, _, _)
JsonMembers(s, i, obj) ==
    LET kend == IF i <= Len(s) /\ s[i] = 34 THEN JsonStringEnd(s, i) ELSE 0
        vstart == kend + 2
        vend == IF kend # 0 /\ vstart <= Len(s) /\ s[kend + 1] = 58 /\ s[vstart] = 34
                THEN JsonStringEnd(s, vstart) ELSE 0
        added == DictSet(obj, SubSeq(s, i + 1, kend - 1), SubSeq(s, vstart + 1, vend - 1))
    IN  IF kend = 0 \/ vend = 0 \/ vend = Len(s) THEN [ok |-> FALSE, obj |-> <<>>]
        ELSE IF s[vend + 1] = 125
             THEN [ok |-> vend + 1 = Len(s), obj |-> IF vend + 1 = Len(s) THEN added ELSE <<>>]
        ELSE IF s[vend + 1] = 44 THEN JsonMembers(s, vend + 2, added)
        ELSE [ok |-> FALSE, obj |-> <<>>]

json_loads(s) ==
    IF s = U("{}") THEN [ok |-> TRUE, obj |-> <<>>]
    ELSE IF Len(s) >= 2 /\ s[1] = 123 THEN JsonMembers(s, 2, <<>>)
    ELSE [ok |-> FALSE, obj |-> <<>>]

\* name in d
DictHas(d, name) == \E i \in 1..Len(d) : d[i][1] = name

\* d[name], for a name in d
DictGet(d, name) == d[CHOOSE i \in 1..Len(d) : d[i][1] = name][2]

\* bing_videos.response, the body of the loop.
bing_videos_item(item) ==
    IF Len(item.vrhm) = 0 THEN Raise
    ELSE LET loaded == json_loads(item.vrhm[1])
             metadata == loaded.obj
             info == Strip(Join(item.spans, U(" - ")))
         IN  IF ~loaded.ok THEN Raise
             ELSE IF ~DictHas(metadata, U("du")) THEN Raise
             ELSE IF Len(item.imgs) = 0 THEN Raise
             ELSE IF ~DictHas(metadata, U("murl")) THEN Raise
             ELSE Record([url |-> DictGet(metadata, U("murl")),
                          thumbnail |-> item.imgs[1],
                          title |-> IF DictHas(metadata, U("vt"))
                                    THEN DictGet(metadata, U("vt")) ELSE <<>>,
                          content |-> DictGet(metadata, U("du")) \o U(" - ") \o info,
                          template |-> U("videos.html")])

\* The body of the loop of response() of engine e.
response_item(e, item) ==
    CASE e = "bing" -> bing_item(item)
      [] e = "bing_news" -> bing_news_item(item)
      [] e = "bing_videos" -> bing_videos_item(item)

---------------------------------------------------------------------------
(***************************************************************************)
(* The inputs and the actions of response().                               *)
(***************************************************************************)

\* The character of a value of the URL-safe base64 alphabet.
B64UrlChar(v) ==
    CASE v < 26 -> 65 + v
      [] v >= 26 /\ v < 52 -> 71 + v
      [] v >= 52 /\ v < 62 -> v - 4
      [] v = 62 -> 45
      [] v = 63 -> 95

\* The base64url encoding of bytes b (RFC 4648, section 5) with the padding
\* removed.
RECURSIVE B64UrlEncodeNoPad(_)
B64UrlEncodeNoPad(b) ==
    CASE Len(b) = 0 -> <<>>
      [] Len(b) = 1 -> <<B64UrlChar(b[1] \div 4), B64UrlChar((b[1] % 4) * 16)>>
      [] Len(b) = 2 -> <<B64UrlChar(b[1] \div 4),
                         B64UrlChar((b[1] % 4) * 16 + (b[2] \div 16)),
                         B64UrlChar((b[2] % 16) * 4)>>
      [] OTHER -> <<B64UrlChar(b[1] \div 4),
                    B64UrlChar((b[1] % 4) * 16 + (b[2] \div 16)),
                    B64UrlChar((b[2] % 16) * 4 + (b[3] \div 64)),
                    B64UrlChar(b[3] % 64)>> \o B64UrlEncodeNoPad(DropFirst(b, 3))

\* The click-tracking href Bing writes for the target URL t.
TrackingHref(t) ==
    U("https://www.bing.com/ck/a?!&&p=abc&u=a1") \o B64UrlEncodeNoPad(Utf8Encode(t))
    \o U("&ntb=1")

\* Target URLs whose UTF-8 lengths leave the remainders 0, 2 and 1 modulo 3;
\* the last has a non-ASCII character (U+00E9).
Targets ==
    { U("https://example.com/page"),
      U("https://b.org/"),
      U("http://") \o <<233>> \o U(".io/") }

WebItem(has_link, href, title, p) ==
    [has_link |-> has_link, href |-> href, title |-> title, p |-> p]

Snippet == << <<[icon |-> TRUE, text |-> U("Web")], [icon |-> FALSE, text |-> U(" a  snippet ")]>> >>

\* Tracking hrefs whose u field is absent, blank, without the "a1" mark, or
\* holds a payload that is not base64url: one character too many for a
\* quad, a character outside the alphabet.
MalformedTracking ==
    { U("https://www.bing.com/ck/a?!&&p=abc&ntb=1"),
      U("https://www.bing.com/ck/a?p=abc&u=&ntb=1"),
      U("https://www.bing.com/ck/a?p=abc&u=b2aHR0cA"),
      U("https://www.bing.com/ck/a?p=abc&u=a1aHR0c"),
      U("https://www.bing.com/ck/a?p=abc&u=a1QU!JD") }

\* A tracking href whose payload is empty.
EmptyTracking == U("https://www.bing.com/ck/a?p=abc&u=a1")

WebItems ==
    { WebItem(FALSE, None, <<>>, <<>>),
      WebItem(TRUE, None, U("No href"), Snippet),
      WebItem(TRUE, U("https://example.com/page"), U("Example"), Snippet),
      WebItem(TRUE, U("https://example.com/page"), <<>>, <<>>),
      WebItem(TRUE, EmptyTracking, U("Empty"), <<>>) }
    \cup {WebItem(TRUE, TrackingHref(t), U("Tracked"), Snippet) : t \in Targets}
    \cup {WebItem(TRUE, h, U("Malformed"), <<>>) : h \in MalformedTracking}

\* The text nodes of span.sb_count.
Banners == { <<>>, <<U("1,234 results")>>, <<U("No"), U(" results")>> }

NewsItem(has_link, href, title, data_author, has_source, aria_label, has_img, src) ==
    [has_link |-> has_link, href |-> href, title |-> title, data_author |-> data_author,
     snippet |-> U("snippet"), has_source |-> has_source, aria_label |-> aria_label,
     has_img |-> has_img, src |-> src]

NewsItems ==
    { NewsItem(FALSE, None, <<>>, None, FALSE, None, FALSE, None),
      NewsItem(TRUE, U("https://n.io/1"), U("News"), U("BBC"), TRUE, U(" Reuters "),
               TRUE, U("/th?id=abc")),
      NewsItem(TRUE, U("https://n.io/2"), U("News"), U("BBC"), FALSE, None,
               TRUE, U("https://www.bing.com/th?id=abc")),
      NewsItem(TRUE, U("https://n.io/3"), U("News"), None, TRUE, U(" "),
               TRUE, U("th?id=abc")),
      NewsItem(TRUE, U("https://n.io/4"), U("News"), None, FALSE, None, TRUE, None),
      NewsItem(TRUE, None, U("No href"), None, FALSE, None, FALSE, None),
      NewsItem(TRUE, U("https://n.io/5"), <<>>, None, FALSE, None, FALSE, None) }

VideoItem(vrhm, imgs) ==
    [vrhm |-> vrhm, spans |-> <<U("10 views"), U("1 day ago ")>>, imgs |-> imgs]

Thumb == U("https://th.bing.com/1")

VideoItems ==
    { VideoItem(<<U("{\"du\":\"1:00\",\"murl\":\"https://v.io/1\",\"vt\":\"Video\"}")>>, <<Thumb>>),
      VideoItem(<<U("{\"du\":\"2:00\",\"murl\":\"https://v.io/2\"}")>>, <<Thumb>>),
      VideoItem(<<U("{\"du\":\"1:00\",\"murl\"")>>, <<Thumb>>),
      VideoItem(<<U("{\"du\":\"1:00\",\"vt\":\"Video\"}")>>, <<Thumb>>),
      VideoItem(<<U("{\"du\":\"1:00\",\"murl\":\"https://v.io/3\"}")>>, <<>>),
      VideoItem(<<>>, <<Thumb>>) }

\* The documents response() of engine e may be given.
Documents(e) ==
    CASE e = "bing" ->
           {[items |-> its, sb_count |-> b] : its \in SeqsUpTo(WebItems, MaxItems), b \in Banners}
      [] e = "bing_news" ->
           {[items |-> its, sb_count |-> <<>>] : its \in SeqsUpTo(NewsItems, MaxItems)}
      [] e = "bing_videos" ->
           {[items |-> its, sb_count |-> <<>>] : its \in SeqsUpTo(VideoItems, MaxItems)}

\* response() of engine e is called with a document.
ResponseStart ==
    /\ parse.pc = "idle"
    /\ \E e \in Engines : \E dom \in Documents(e) :
          parse' = [parse EXCEPT !.pc = "loop", !.e = e, !.dom = dom]
    /\ UNCHANGED <<traits, engine, query, params_in, params, fetch>>

\* The loop takes the next item: it skips it, appends its record, or raises,
\* which ends response().
ResponseItem ==
    /\ parse.pc = "loop"
    /\ parse.i <= Len(parse.dom.items)
    /\ LET out == response_item(parse.e, parse.dom.items[parse.i])
       IN  parse' =
             CASE out.kind = "raise" -> [parse EXCEPT !.pc = "raised"]
               [] out.kind = "skip" -> [parse EXCEPT !.i = @ + 1]
               [] out.kind = "record" ->
                    [parse EXCEPT !.i = @ + 1, !.results = Append(@, out.rec)]
    /\ UNCHANGED <<traits, engine, query, params_in, params, fetch>>

\* The loop of bing.response ends: the summary record is added and the
\* results are returned.
BingReturn ==
    /\ parse.pc = "loop"
    /\ parse.e = "bing"
    /\ parse.i > Len(parse.dom.items)
    /\ parse' = [parse EXCEPT !.pc = "done",
                              !.results = bing_summary(@, parse.dom.sb_count)]
    /\ UNCHANGED <<traits, engine, query, params_in, params, fetch>>

\* The loop of bing_news.response or bing_videos.response ends: the results
\* are returned.
ResponseReturn ==
    /\ parse.pc = "loop"
    /\ parse.e # "bing"
    /\ parse.i > Len(parse.dom.items)
    /\ parse' = [parse EXCEPT !.pc = "done"]
    /\ UNCHANGED <<traits, engine, query, params_in, params, fetch>>

\* One run of response().
InitParse ==
    /\ traits = [e \in Engines |-> EmptyTraits]
    /\ engine = "none"
    /\ query = <<>>
    /\ params_in = NewParams(<<>>, 1, None, 0)
    /\ params = NewParams(<<>>, 1, None, 0)
    /\ fetch = FetchIdle
    /\ parse = ParseIdle

NextParse == ResponseStart \/ ResponseItem \/ BingReturn \/ ResponseReturn

SpecParse == InitParse /\ [][NextParse]_vars

---------------------------------------------------------------------------
(***************************************************************************)
(* Properties of request().                                                *)
(***************************************************************************)

\* The names of the query parameters of a URL.
UrlKeys(url) == QsKeys(UrlQuery(url))

\* The region request() resolved for the last request.
ResolvedRegion ==
    get_region(traits[engine], params_in.searxng_locale, traits[engine].all_locale)

\* C1: the URL of a web request holds the parameters q, adlt and (when a
\* market is resolved) mkt and no other: no first, count or SFX, no qft or
\* form; and it is the URL of the same request for page 1 with no time
\* range, so requests that differ in pageno or time_range only get one URL.
C1_WebIgnoresPaging ==
    engine = "bing" =>
        LET keys == UrlKeys(params.url)
            first_page == [params_in EXCEPT !.pageno = 1, !.time_range = None]
        IN  /\ keys \subseteq {U("q"), U("adlt"), U("mkt")}
            /\ keys \cap {U("first"), U("count"), U("SFX"), U("qft"), U("form")} = {}
            /\ params.url = bing_request(query, first_page, traits["bing"]).url

\* C1's case: a web request for page 2 of a day's results, in a known market,
\* whose query text itself spells a pagination parameter.
C1_Witness ==
    /\ engine = "bing"
    /\ params_in.pageno = 2
    /\ params_in.time_range = U("day")
    /\ query = U("a b&first=5")
    /\ U("mkt") \in UrlKeys(params.url)

\* C2: get_locale_params returns None for a None, empty or "clear" region;
\* and a request, of any of the three engines, for a locale tag the trait
\* table does not hold resolves no market and has no mkt parameter in its URL.
C2_UnknownLocaleOmitsMarket ==
    /\ get_locale_params(None) = NoneDict
    /\ get_locale_params(<<>>) = NoneDict
    /\ get_locale_params(U("clear")) = NoneDict
    /\ (engine \in Engines /\ params_in.searxng_locale \notin DOMAIN traits[engine].regions)
          => /\ get_locale_params(ResolvedRegion) = NoneDict
             /\ U("mkt") \notin UrlKeys(params.url)

\* C2's case: a news request for a locale absent from a non-empty trait
\* table whose all_locale is "clear".
C2_Witness ==
    /\ engine = "bing_news"
    /\ params_in.searxng_locale = U("fr-FR")
    /\ U("en-US") \in DOMAIN traits[engine].regions
    /\ traits[engine].all_locale = U("clear")
    /\ params.url # <<>>

\* The part of a market code before its first "-".
PrimarySubtag(m) == IF Find(m, 45) = 0 THEN m ELSE SubSeq(m, 1, Find(m, 45) - 1)

\* C3: in every request the mkt parameter and the Accept-Language header
\* agree: with a resolved region M that is neither empty nor "clear" the URL
\* has mkt=M and the header is "M,<M before its first '-'>;q=0.9"; otherwise
\* the URL has no mkt and the headers are the caller's.
C3_MarketAndHeaderAgree ==
    engine \in Engines =>
        LET M == ResolvedRegion
            mkt == QsGet(UrlQuery(params.url), U("mkt"))
        IN  IF Truthy(M) /\ M # U("clear")
            THEN /\ mkt = <<M>>
                 /\ params.headers.Accept_Language
                      = M \o U(",") \o PrimarySubtag(M) \o U(";q=0.9")
            ELSE /\ mkt = <<>>
                 /\ params.headers = params_in.headers

\* C3's case: a video request whose locale resolves to a market.
C3_Witness ==
    /\ engine = "bing_videos"
    /\ ResolvedRegion = U("en-us")
    /\ params.headers.Accept_Language = U("en-us,en;q=0.9")

---------------------------------------------------------------------------
(***************************************************************************)
(* Properties of fetch_traits().                                           *)
(***************************************************************************)

\* The <<locale tag, market code>> pairs of one country, one for each of its
\* official languages babel has a locale for.
RECURSIVE LangPairs(_, _)
LangPairs(cc_tag, langs) ==
    IF langs = <<>> THEN <<>>
    ELSE LET lang_tag == Split(langs[1], 95)[1]
             tag == sxng_region_tag(lang_tag, cc_tag)
         IN  (IF tag = Raised THEN <<>>
              ELSE << <<tag, map_market_codes(lang_tag \o U("-") \o cc_tag)>> >>)
             \o LangPairs(cc_tag, Tail(langs))

\* The pairs of a region page, in the order the run meets them.
RECURSIVE PagePairs(_)
PagePairs(hrefs) ==
    IF hrefs = <<>> THEN <<>>
    ELSE LET cc_tag == link_cc_tag(hrefs[1])
         IN  (IF cc_tag = U("clear") THEN <<>>
              ELSE LangPairs(cc_tag, get_official_languages(cc_tag)))
             \o PagePairs(Tail(hrefs))

\* The first pair of ps that has this tag.
FirstIndex(ps, tag) == CHOOSE i \in 1..Len(ps) :
                          /\ ps[i][1] = tag
                          /\ \A j \in 1..(i - 1) : ps[j][1] # tag

\* The later pairs whose market code is not the one of the first pair of
\* their tag, as the CONFLICT lines <<tag, first, later>>.
Conflicts(ps) ==
    LET keep == {i \in 1..Len(ps) : ps[i][2] # ps[FirstIndex(ps, ps[i][1])][2]}
        F[i \in 0..Len(ps)] ==
            IF i = 0 THEN <<>>
            ELSE IF i \in keep
                 THEN Append(F[i - 1], <<ps[i][1], ps[FirstIndex(ps, ps[i][1])][2], ps[i][2]>>)
                 ELSE F[i - 1]
    IN  F[Len(ps)]

\* bing.fetch_traits has returned.
WebFetchReturned ==
    \/ fetch.pc = "fix"
    \/ fetch.pc = "done" /\ fetch.e = "bing"

\* C10: while bing.fetch_traits runs, a locale tag that has a market code
\* keeps it; when it returns, every tag has the market code of the first
\* pair that produced it, the later pairs with another market code are
\* logged, and the run raised only at a link without a cc field or at a
\* response that was not OK.
C10_FirstMappingWins ==
    /\ [][fetch.pc \in {"links", "langs"} =>
            \A tag \in DOMAIN fetch.et.regions :
                /\ tag \in DOMAIN fetch'.et.regions
                /\ fetch'.et.regions[tag] = fetch.et.regions[tag]]_vars
    /\ [](WebFetchReturned =>
            LET ps == PagePairs(fetch.hrefs)
            IN  /\ DOMAIN fetch.et.regions = {ps[i][1] : i \in 1..Len(ps)}
                /\ \A i \in 1..Len(ps) :
                      fetch.et.regions[ps[i][1]] = ps[FirstIndex(ps, ps[i][1])][2]
                /\ fetch.et.log = Conflicts(ps))
    /\ [](fetch.et.raised =>
            link_cc_tag(fetch.hrefs[fetch.li]) = Raised)

\* C10's case: a run of bing.fetch_traits that met a later pair with another
\* market code for a tag it had, logged it and returned with the first.
C10_Witness ==
    /\ fetch.pc = "done"
    /\ fetch.e = "bing"
    /\ fetch.hrefs = <<U("/?cc=us"), U("/?cc=US")>>
    /\ fetch.et.regions[U("en-US")] = U("en-us")
    /\ fetch.et.log = << <<U("en-US"), U("en-us"), U("en-US")>> >>

---------------------------------------------------------------------------
(***************************************************************************)
(* Properties of response().                                               *)
(***************************************************************************)

\* The items of the document and the results collected so far.
Items == parse.dom.items

Results == parse.results

\* The record the loop appended last.
LastResult == Results[Len(Results)]

\* The web summary record.
IsSummary(r) == "number_of_results" \in DOMAIN r

\* Item k has been handled and no later item has appended a record: the
\* loop stands right after it.
JustHandled(k) == parse.i = k + 1 /\ parse.pc \in {"loop", "raised"}

\* C4: a result whose href is the click-tracking form of a target URL T,
\* with u=a1<base64url of T without padding>, is returned with url T.
C4_TrackingRoundTrip ==
    parse.e = "bing" =>
        \A k \in 1..Len(Items) : \A t \in Targets :
            (Items[k].href = TrackingHref(t) /\ Truthy(Items[k].title)) =>
                /\ (parse.i = k => parse.pc # "raised")
                /\ (JustHandled(k) => Len(Results) > 0 /\ LastResult.url = t)

\* C4's case: the tracking href of https://example.com/page was decoded and
\* its record returned.
C4_Witness ==
    /\ parse.e = "bing"
    /\ parse.pc = "done"
    /\ Len(Items) = 1
    /\ Items[1].href = U("https://www.bing.com/ck/a?!&&p=abc&u=a1aHR0cHM6Ly9leGFtcGxlLmNvbS9wYWdl&ntb=1")
    /\ Results[1].url = U("https://example.com/page")

\* C5: a result whose tracking href has no u field, a u field without the
\* "a1" mark, or a payload that is not base64url does not make response()
\* raise and is returned with the tracking href as its url.
C5_MalformedTrackingKept ==
    parse.e = "bing" =>
        \A k \in 1..Len(Items) :
            (Items[k].href \in MalformedTracking /\ Truthy(Items[k].title)) =>
                /\ (parse.i = k => parse.pc # "raised")
                /\ (JustHandled(k) => Len(Results) > 0 /\ LastResult.url = Items[k].href)

\* Whether a text has a digit, and the number its digits spell.
HasDigit(s) == \E i \in 1..Len(s) : IsDigit(s[i])

DigitsValue(s) ==
    LET F[i \in 0..Len(s)] ==
            IF i = 0 THEN 0
            ELSE IF IsDigit(s[i]) THEN 10 * F[i - 1] + (s[i] - 48)
            ELSE F[i - 1]
    IN  F[Len(s)]

BannerText == Join(parse.dom.sb_count, <<>>)

\* The positions of the summary records in the results.
SummaryPositions == {j \in 1..Len(Results) : IsSummary(Results[j])}

\* What C6 says of a returned web response, for a page that "has results"
\* in the sense has_results.
SummaryRule(has_results) ==
    /\ ~has_results => Results = <<>>
    /\ (has_results /\ HasDigit(BannerText)) =>
          /\ SummaryPositions = {Len(Results)}
          /\ LastResult = [number_of_results |-> DigitsValue(BannerText)]
    /\ SummaryPositions \subseteq {Len(Results)}

\* C6, as claimed: a page with no result item returns the empty sequence; a
\* page with at least one result item and a banner with digits returns
\* exactly one summary record, last, with the number the digits spell; a
\* summary record is never anywhere but last.
C6_SummaryForAnyItem ==
    (parse.e = "bing" /\ parse.pc = "done") => SummaryRule(Len(Items) >= 1)

\* An item response() returns a record for: it has a link with a non-empty
\* href and a non-empty title.
Kept(item) == item.has_link /\ Truthy(item.href) /\ Truthy(item.title)

\* C6, amended: the same with "at least one result item" read as "at least
\* one result item that yields a record"; and the records before the
\* summary are those of the kept items.
C6_SummaryAfterResults ==
    (parse.e = "bing" /\ parse.pc = "done") =>
        /\ SummaryRule(\E k \in 1..Len(Items) : Kept(Items[k]))
        /\ Cardinality({k \in 1..Len(Items) : Kept(Items[k])})
             = Len(Results) - Cardinality(SummaryPositions)

\* C6's case: a page with one result and the banner "1,234 results".
C6_Witness ==
    /\ parse.e = "bing"
    /\ parse.pc = "done"
    /\ Len(Items) = 1
    /\ parse.dom.sb_count = <<U("1,234 results")>>
    /\ Len(Results) = 2
    /\ Results[2] = [number_of_results |-> 1234]

\* C7: the thumbnail of a news item is "https://www.bing.com/th?id=abc" for
\* the src "/th?id=abc", the src itself when it starts with
\* "https://www.bing.com", and an img without src is passed through without
\* raising.
C7_NewsThumbnail ==
    parse.e = "bing_news" =>
        \A k \in 1..Len(Items) :
            (Items[k].has_link /\ Items[k].has_img) =>
                /\ (parse.i = k => parse.pc # "raised")
                /\ (JustHandled(k) =>
                      /\ Len(Results) > 0
                      /\ Items[k].src = None => LastResult.thumbnail = None
                      /\ Items[k].src = U("/th?id=abc") =>
                            LastResult.thumbnail = U("https://www.bing.com/th?id=abc")
                      /\ (Items[k].src # None /\ StartsWith(Items[k].src, U("https://www.bing.com")))
                            => LastResult.thumbnail = Items[k].src)

\* A video block whose vrhm attribute is there and is not JSON.
MalformedJson(item) == Len(item.vrhm) > 0 /\ ~json_loads(item.vrhm[1]).ok

\* A video block with all that a record needs.
WellFormedVideo(item) == bing_videos_item(item).kind = "record"

\* The records of the well-formed blocks, in document order.
RECURSIVE WellFormedRecords(_)
WellFormedRecords(items) ==
    IF items = <<>> THEN <<>>
    ELSE (IF WellFormedVideo(items[1]) THEN <<bing_videos_item(items[1]).rec>> ELSE <<>>)
         \o WellFormedRecords(Tail(items))

\* C8: a video block whose JSON does not parse is skipped: response() does
\* not raise at it, and a response with such blocks returns the records of
\* its well-formed blocks in document order.
C8_VideoFailureIsolation ==
    parse.e = "bing_videos" =>
        /\ (parse.pc = "raised" => ~MalformedJson(Items[parse.i]))
        /\ (\E k \in 1..Len(Items) : MalformedJson(Items[k])) =>
              (parse.pc \in {"done", "raised"} => Results = WellFormedRecords(Items))

\* An item without its link, its url or its title.
MissingUrlOrTitle(e, item) ==
    IF e = "bing_videos"
    THEN /\ Len(item.vrhm) > 0
         /\ json_loads(item.vrhm[1]).ok
         /\ \/ ~DictHas(json_loads(item.vrhm[1]).obj, U("murl"))
            \/ ~DictHas(json_loads(item.vrhm[1]).obj, U("vt"))
    ELSE ~item.has_link \/ ~Truthy(item.href) \/ ~Truthy(item.title)

\* C9: every record of the three parsers but the web summary has a
\* non-empty url and a non-empty title, and an item without its link, url or
\* title is dropped without response() raising.
C9_RecordsHaveUrlAndTitle ==
    /\ \A j \in 1..Len(Results) :
          ~IsSummary(Results[j]) => Truthy(Results[j].url) /\ Truthy(Results[j].title)
    /\ parse.pc = "raised" => ~MissingUrlOrTitle(parse.e, Items[parse.i])

=============================================================================
